---- MODULE Spec2Model ----
(***************************************************************************)
(* Model of the B3 settlement-price scraper (src/scraper.py): one run      *)
(* fetches the page, folds the table rows into records, stamps the batch   *)
(* and writes it to the all_futures table of the SQLite database.  The    *)
(* chart scripts, charting.py and the FuturesDataAnalyzer read that table. *)
(*                                                                         *)
(* Text is a sequence of one-character strings, so that trimming is        *)
(* computed.  Python's None is the value None below.  A clock reading is   *)
(* a tick count; strftime('%Y-%m-%d') keeps its day and                    *)
(* strftime('%H:%M:%S') keeps its tick of the day.                         *)
(***************************************************************************)
EXTENDS Integers, Sequences, FiniteSets, TLC

VARIABLES
    site,              \* which pages the exchange's server may give
    runsLeft,          \* scraper runs the scheduler will still start
    clock,             \* the wall clock, in ticks
    pc,                \* position of the running scraper process
    error,             \* the stage whose exception ended the run, or "none"
    fetches,           \* requests.get calls made by the current run
    parsed,            \* BeautifulSoup has parsed a body in the current run
    response,          \* scraper.py:10   response
    table,             \* scraper.py:15   table
    rest,              \* scraper.py:20   rows the for loop has yet to visit
    data,              \* scraper.py:17   data
    current_commodity, \* scraper.py:18   current_commodity
    df,                \* scraper.py:43   df
    db,                \* committed state of all_futures in b3_futures.db
    nowDate,           \* clock reading of datetime.now() at scraper.py:45
    nowTime,           \* clock reading of datetime.now() at scraper.py:46
    startClock,        \* clock when download_b3_futures was entered
    dbAtStart,         \* db when the current run started
    dbBeforeSave,      \* db when save_to_sqlite was entered
    code,              \* charting.py:56   the argument of parse_contract_month
    decoded,           \* parse_contract_month has returned
    month,             \* charting.py:89   month
    year,              \* charting.py:89   year
    script,            \* the chart script that runs, or "none"
    cpc,               \* position of the chart script
    cfailed,           \* the stage of the chart script that raised, or "none"
    cdf,               \* rows of the chart script's query result df
    exitStatus,        \* exit status of the chart script's process
    success,           \* the chart script has reported success
    wpc,               \* position of a second scraper run in save_to_sqlite
    wdf,               \* the batch the second scraper run saves
    mpc,               \* position of charting.py's main
    mdb,               \* all_futures as charting.py's query read it
    mdf,               \* charting.py:390  rows of df
    mfailed,           \* the exception that ended charting.py, or "none"
    mexit,             \* exit status of charting.py's process
    mmsg,              \* charting.py:396 has printed "No DI1 futures data found"
    mplots,            \* charting.py has produced a plot
    repo_path,         \* futures_data_analyzer.py:34  self.repo_path is set
    conn,              \* futures_data_analyzer.py:35  self.conn
    fcall,             \* the method of the analyzer called last
    fpc,               \* position of the analyzer inside run_analysis
    fraised,           \* the exception the last call raised, or "none"
    fexecuted,         \* the last call ran a query on the database
    fopened,           \* the last run_analysis call opened the connection
    fcharts,           \* charts the last run_analysis call created
    qdb,               \* all_futures as the analyzer's last query read it
    latest             \* rows the last get_latest_data returned

\* the variables of the contract-month decoder
decodeVars == <<code, decoded, month, year>>

\* the variables of scraper.py
scraperVars ==
    <<site, runsLeft, clock, pc, error, fetches, parsed, response, table, rest,
      data, current_commodity, df, db, nowDate, nowTime, startClock, dbAtStart,
      dbBeforeSave>>

\* the variables of the chart scripts
chartVars == <<script, cpc, cfailed, cdf, exitStatus, success>>

\* the variables of a second scraper run that saves at the same time
writerVars == <<wpc, wdf>>

\* the variables of charting.py
analyzeVars == <<mpc, mdb, mdf, mfailed, mexit, mmsg, mplots>>

\* the variables of a FuturesDataAnalyzer
analyzerVars ==
    <<repo_path, conn, fcall, fpc, fraised, fexecuted, fopened, fcharts, qdb,
      latest>>

\* the variables of the programs that only read the database
readerVars == <<analyzeVars, analyzerVars>>

\* the variables that a step of scraper.py leaves alone
nonScraperVars == <<decodeVars, chartVars, writerVars, readerVars>>

\* the variables that a step of a chart script leaves alone
nonChartVars == <<scraperVars, decodeVars, writerVars, readerVars>>

vars == <<scraperVars, nonScraperVars>>

(***************************************************************************)
(* Bounds                                                                  *)
(***************************************************************************)
MaxRows == 3        \* data rows (after the header row) of an enumerated table
MaxRuns == 2        \* scraper runs on the same database
MaxClock == 3       \* last clock tick
MaxCodeLen == 3     \* characters of an enumerated contract-month code
TicksPerDay == 2    \* clock ticks in a day
MaxCodeRows == 2    \* data rows of a page that charting.py is run on

(***************************************************************************)
(* Values                                                                  *)
(***************************************************************************)
None == <<"<None>">>
NoClock == 0 - 1

\* the greatest of a set of integers (MAX of SQL, max of Python)
Max(S) == CHOOSE x \in S : \A y \in S : y <= x

Whitespace == {" ", "\n"}

RECURSIVE LStrip(_)
LStrip(t) ==
    IF t # <<>> /\ Head(t) \in Whitespace THEN LStrip(Tail(t)) ELSE t

RECURSIVE RStrip(_)
RStrip(t) ==
    IF t # <<>> /\ t[Len(t)] \in Whitespace
    THEN RStrip(SubSeq(t, 1, Len(t) - 1))
    ELSE t

\* str.strip()
Strip(t) == RStrip(LStrip(t))

\* a tag boundary inside a cell (<br>, <b>, </b>): it splits the cell's text
\* into its strings and is no part of the text
TagEdge == "|"

\* the positions of the tag boundaries of a cell
TagEdges(t) == {i \in 1..Len(t) : t[i] = TagEdge}

\* cell.get_text(strip=True): every string of the cell is stripped, and the
\* stripped strings are joined by ''
RECURSIVE GetText(_)
GetText(t) ==
    IF TagEdges(t) = {} THEN Strip(t)
    ELSE LET i == CHOOSE e \in TagEdges(t) : \A f \in TagEdges(t) : e <= f
         IN  Strip(SubSeq(t, 1, i - 1)) \o GetText(SubSeq(t, i + 1, Len(t)))

\* datetime.now().strftime('%Y-%m-%d') and .strftime('%H:%M:%S') of a reading
StrfDate(t) == t \div TicksPerDay
StrfTime(t) == t % TicksPerDay

(***************************************************************************)
(* The page: a document is the sequence of its table elements, a table the *)
(* sequence of its tr rows, a row the sequence of the raw texts of its td  *)
(* cells (a row of th cells has none).                                     *)
(***************************************************************************)
DI1 == <<"D", "I", "1">>
DOL == <<"D", "O", "L">>
WDO == <<"W", "D", "O">>
IND == <<"I", "N", "D">>
F25 == <<"F", "2", "5">>
G25 == <<"G", "2", "5">>
H25 == <<"H", "2", "5">>
J25 == <<"J", "2", "5">>

Row6(c, m) == <<c, m, <<"9", "1">>, <<" ", "9", "2">>, <<"-", "1", " ">>, <<"7">> >>

ThRow == <<>>
DI1Row == Row6(DI1, F25)
GRow == Row6(<<>>, G25)
HRow == Row6(<<>>, H25)
BlankRow ==
    <<<<" ", "\n">>, <<" ", "J", "2", "5", " ">>, <<"\n", "8", "1", " ">>,
      <<"8", " ", "|", "2">>, <<"+", "1">>, <<" ", "6", "\n">> >>
DOLRow == Row6(<<" ", "D", "O", "L", "\n">>, F25)
ShortRow == <<WDO, F25, <<"9", "1">>, <<"9", "2">>, <<"7">> >>
LongRow == <<WDO, F25, <<"9", "1">>, <<"9", "2">>, <<"-", "1">>, <<"7">>, <<"0">> >>
INDRow == Row6(IND, J25)

CandidateRows == {DI1Row, GRow, HRow, BlankRow, DOLRow, ShortRow, LongRow}
HeaderRows == {ThRow, INDRow}

SeqsUpTo(S, n) == UNION {[1..k -> S] : k \in 0..n}

\* every table of a header row and at most n data rows, and the table with no tr
Tables(n) ==
    {<<>>} \cup {<<h>> \o d : h \in HeaderRows, d \in SeqsUpTo(CandidateRows, n)}

ExampleTable == <<ThRow, DI1Row, GRow, HRow>>
DupTable == <<ThRow, DOLRow, DOLRow>>
HeaderOnlyTable == <<ThRow>>

NetworkError == [raises |-> TRUE, status |-> 0, doc |-> <<>>]
Http(status, doc) == [raises |-> FALSE, status |-> status, doc |-> doc]

\* what the server may answer: every small table
ExtractResponses ==
    {NetworkError, Http(500, <<>>), Http(500, << <<ThRow, DOLRow>> >>), Http(200, <<>>)}
        \cup {Http(200, <<t>>) : t \in Tables(MaxRows)}

\* what the server may answer: a few pages, for runs that follow one another
StoreResponses ==
    {NetworkError, Http(500, <<>>), Http(500, << <<ThRow, DOLRow>> >>), Http(200, <<>>),
     Http(200, <<HeaderOnlyTable>>), Http(200, <<ExampleTable>>),
     Http(200, <<DupTable>>)}

\* the Contract_Month texts of the pages that charting.py is run on
A25 == <<"A", "2", "5">>
F0 == <<"F", "0">>
F5 == <<"F", "5">>
SampleCodes == {F25, A25, F0, F5, <<>>}
CodeRows == {Row6(DI1, c) : c \in SampleCodes} \cup {DOLRow}

\* what the server may answer: a header row and at most MaxCodeRows rows
CodeResponses ==
    {Http(200, << <<ThRow>> \o d >>) : d \in SeqsUpTo(CodeRows, MaxCodeRows)}

Responses(s) ==
    IF s = "extract" THEN ExtractResponses
    ELSE IF s = "codes" THEN CodeResponses
    ELSE StoreResponses

(***************************************************************************)
(* DataFrames and the all_futures table                                    *)
(***************************************************************************)
RecordColumns ==
    <<"Commodity", "Contract_Month", "Previous_Price", "Current_Price",
      "Variation", "Settlement_Value">>

NoFrame == [cols |-> <<>>, rows |-> <<>>]
Absent == [exists |-> FALSE, cols |-> <<>>, rows |-> <<>>]

\* pd.DataFrame(data) of a list of dicts that all have the same keys
DataFrame(d) ==
    [cols |-> IF d = <<>> THEN <<>> ELSE RecordColumns, rows |-> d]

HasColumn(frame, col) == \E i \in 1..Len(frame.cols) : frame.cols[i] = col

\* df[col] = v, v a scalar
SetColumnPerRow(frame, col, v) ==
    [cols |-> IF HasColumn(frame, col) THEN frame.cols ELSE Append(frame.cols, col),
     rows |-> [i \in 1..Len(frame.rows) |-> (col :> (v + i - 1)) @@ frame.rows[i]]]
SetColumn(frame, col, v) ==
    [cols |-> IF HasColumn(frame, col) THEN frame.cols ELSE Append(frame.cols, col),
     rows |-> [i \in 1..Len(frame.rows) |-> (col :> v) @@ frame.rows[i]]]

(***************************************************************************)
(* download_b3_futures                                                     *)
(***************************************************************************)
\* soup.find('table'): the first table element, or None
FindTableOrEmpty(doc) == IF doc = <<>> THEN <<>> ELSE doc[1]
FindTable(doc) == IF doc = <<>> THEN None ELSE doc[1]

\* table.find_all('tr')[1:]
KeepHeader(rows) == rows
SkipHeader(rows) == IF rows = <<>> THEN <<>> ELSE Tail(rows)

\* len(cells) == 6
QualifiesFrom6(cells) == Len(cells) >= 6
Qualifies(cells) == Len(cells) = 6

\* if commodity: current_commodity = commodity
OwnCommodity(cur, commodity) == commodity
CarryForward(cur, commodity) == IF commodity # <<>> THEN commodity ELSE cur

\* the dict appended for a 6-cell row
RecordOf(cells, cur) ==
    [Commodity |-> cur,
     Contract_Month |-> GetText(cells[2]),
     Previous_Price |-> GetText(cells[3]),
     Current_Price |-> GetText(cells[4]),
     Variation |-> GetText(cells[5]),
     Settlement_Value |-> GetText(cells[6])]

Running == pc \notin {"idle", "done", "failed"}

Raise(stage) ==
    /\ pc' = "failed"
    /\ error' = stage

\* python scraper.py is started
StartRun ==
    /\ ~Running
    /\ runsLeft > 0
    /\ runsLeft' = runsLeft - 1
    /\ pc' = "get"
    /\ error' = "none"
    /\ fetches' = 0
    /\ parsed' = FALSE
    /\ response' = NetworkError
    /\ table' = None
    /\ rest' = <<>>
    /\ data' = <<>>
    /\ current_commodity' = None
    /\ df' = NoFrame
    /\ nowDate' = NoClock
    /\ nowTime' = NoClock
    /\ startClock' = clock
    /\ dbAtStart' = db
    /\ dbBeforeSave' = db
    /\ UNCHANGED <<site, clock, db>>
    /\ UNCHANGED nonScraperVars

\* scraper.py:10  requests.get(url): raises on a network error, returns the
\* response of any HTTP status otherwise
Get ==
    /\ pc = "get"
    /\ \E r \in Responses(site) :
        /\ fetches' = fetches + 1
        /\ IF r.raises
           THEN Raise("fetch") /\ UNCHANGED response
           ELSE pc' = "parse" /\ response' = r /\ UNCHANGED error
    /\ UNCHANGED <<site, runsLeft, clock, parsed, table, rest, data,
                   current_commodity, df, db, nowDate, nowTime, startClock,
                   dbAtStart, dbBeforeSave>>
    /\ UNCHANGED nonScraperVars

\* scraper.py:11-18
Parse ==
    /\ pc = "parse"
    /\ parsed' = TRUE
    /\ table' = FindTable(response.doc)
    /\ data' = <<>>
    /\ current_commodity' = None
    /\ pc' = "for"
    /\ UNCHANGED <<site, runsLeft, clock, error, fetches, response, rest, df, db,
                   nowDate, nowTime, startClock, dbAtStart, dbBeforeSave>>
    /\ UNCHANGED nonScraperVars

\* scraper.py:20  table.find_all('tr')[1:]; None has no find_all
ForRows ==
    /\ pc = "for"
    /\ IF table = None
       THEN Raise("parse") /\ UNCHANGED rest
       ELSE pc' = "row" /\ rest' = SkipHeader(table) /\ UNCHANGED error
    /\ UNCHANGED <<site, runsLeft, clock, fetches, parsed, response, table, data,
                   current_commodity, df, db, nowDate, nowTime, startClock,
                   dbAtStart, dbBeforeSave>>
    /\ UNCHANGED nonScraperVars

\* scraper.py:21-41  one iteration of the loop
RowStep ==
    /\ pc = "row"
    /\ rest # <<>>
    /\ LET cells == Head(rest)
       IN  IF Qualifies(cells)
           THEN LET cur == CarryForward(current_commodity, GetText(cells[1]))
                IN  /\ current_commodity' = cur
                    /\ data' = Append(data, RecordOf(cells, cur))
           ELSE UNCHANGED <<current_commodity, data>>
    /\ rest' = Tail(rest)
    /\ UNCHANGED <<site, runsLeft, clock, pc, error, fetches, parsed, response,
                   table, df, db, nowDate, nowTime, startClock, dbAtStart,
                   dbBeforeSave>>
    /\ UNCHANGED nonScraperVars

\* scraper.py:43
Frame ==
    /\ pc = "row"
    /\ rest = <<>>
    /\ df' = DataFrame(data)
    /\ pc' = "date"
    /\ UNCHANGED <<site, runsLeft, clock, error, fetches, parsed, response, table,
                   rest, data, current_commodity, db, nowDate, nowTime,
                   startClock, dbAtStart, dbBeforeSave>>
    /\ UNCHANGED nonScraperVars

\* scraper.py:45
StampDate ==
    /\ pc = "date"
    /\ nowDate' = clock
    /\ df' = SetColumn(df, "download_date", StrfDate(clock))
    /\ pc' = "time"
    /\ UNCHANGED <<site, runsLeft, clock, error, fetches, parsed, response, table,
                   rest, data, current_commodity, db, nowTime, startClock,
                   dbAtStart, dbBeforeSave>>
    /\ UNCHANGED nonScraperVars

\* scraper.py:46-48, and scraper.py:65-66: the frame is returned and passed
\* to save_to_sqlite
StampTime ==
    /\ pc = "time"
    /\ nowTime' = clock
    /\ df' = SetColumn(df, "download_time", StrfTime(clock))
    /\ pc' = "drop"
    /\ dbBeforeSave' = db
    /\ UNCHANGED <<site, runsLeft, clock, error, fetches, parsed, response, table,
                   rest, data, current_commodity, db, nowDate, startClock,
                   dbAtStart>>
    /\ UNCHANGED nonScraperVars

(***************************************************************************)
(* save_to_sqlite.  DataFrame.to_sql(if_exists='replace') first replaces   *)
(* the table by an empty one of the frame's columns and commits, then      *)
(* inserts the frame's rows in one transaction, rolled back if it fails.   *)
(***************************************************************************)
\* DROP TABLE IF EXISTS all_futures
DropTable(t) == Absent

\* to_sql, if_exists='replace': drop the table if it exists and create it
CreateTable(t, frame) == [exists |-> TRUE, cols |-> frame.cols, rows |-> <<>>]

RECURSIVE Distinct(_)
Distinct(rows) ==
    IF rows = <<>> THEN <<>>
    ELSE LET init == Distinct(SubSeq(rows, 1, Len(rows) - 1))
             last == rows[Len(rows)]
         IN  IF \E i \in 1..Len(init) : init[i] = last THEN init
             ELSE Append(init, last)

\* to_sql: insert every row of the frame
InsertDistinctRows(t, frame) == [t EXCEPT !.rows = Distinct(t.rows \o frame.rows)]
InsertRows(t, frame) == [t EXCEPT !.rows = t.rows \o frame.rows]

\* the INSERT of to_sql raises when the table is gone, or lacks a column of
\* the frame (another process has replaced it since it was created)
CanInsert(t, frame) ==
    /\ t.exists
    /\ frame.rows = <<>> \/ \A i \in 1..Len(frame.cols) : HasColumn(t, frame.cols[i])

\* scraper.py:51-55
SaveDrop ==
    /\ pc = "drop"
    /\ db' = DropTable(db)
    /\ pc' = "create"
    /\ UNCHANGED <<site, runsLeft, clock, error, fetches, parsed, response, table,
                   rest, data, current_commodity, df, nowDate, nowTime,
                   startClock, dbAtStart, dbBeforeSave>>
    /\ UNCHANGED nonScraperVars

\* scraper.py:57, the table's replacement
SaveCreate ==
    /\ pc = "create"
    /\ db' = CreateTable(db, df)
    /\ pc' = "insert"
    /\ UNCHANGED <<site, runsLeft, clock, error, fetches, parsed, response, table,
                   rest, data, current_commodity, df, nowDate, nowTime,
                   startClock, dbAtStart, dbBeforeSave>>
    /\ UNCHANGED nonScraperVars

\* scraper.py:57, the rows' insertion
SaveInsert ==
    /\ pc = "insert"
    /\ IF CanInsert(db, df)
       THEN db' = InsertRows(db, df) /\ pc' = "close" /\ UNCHANGED error
       ELSE Raise("store") /\ UNCHANGED db
    /\ UNCHANGED <<site, runsLeft, clock, fetches, parsed, response, table,
                   rest, data, current_commodity, df, nowDate, nowTime,
                   startClock, dbAtStart, dbBeforeSave>>
    /\ UNCHANGED nonScraperVars

\* scraper.py:59-62: save_to_sqlite returns
SaveClose ==
    /\ pc = "close"
    /\ pc' = "report"
    /\ UNCHANGED <<site, runsLeft, clock, error, fetches, parsed, response, table,
                   rest, data, current_commodity, df, db, nowDate, nowTime,
                   startClock, dbAtStart, dbBeforeSave>>
    /\ UNCHANGED nonScraperVars

\* scraper.py:51-57: a statement of save_to_sqlite raises (sqlite3 or pandas
\* error); what is committed stays, the open transaction is rolled back
StoreFails ==
    /\ pc \in {"drop", "create", "insert"}
    /\ Raise("store")
    /\ UNCHANGED <<site, runsLeft, clock, fetches, parsed, response, table, rest,
                   data, current_commodity, df, db, nowDate, nowTime, startClock,
                   dbAtStart, dbBeforeSave>>
    /\ UNCHANGED nonScraperVars

\* scraper.py:67-69: df['Commodity'] raises KeyError on a frame without it
Report ==
    /\ pc = "report"
    /\ IF HasColumn(df, "Commodity")
       THEN pc' = "done" /\ UNCHANGED error
       ELSE Raise("report")
    /\ UNCHANGED <<site, runsLeft, clock, fetches, parsed, response, table, rest,
                   data, current_commodity, df, db, nowDate, nowTime, startClock,
                   dbAtStart, dbBeforeSave>>
    /\ UNCHANGED nonScraperVars

\* time passes
Tick ==
    /\ clock < MaxClock
    /\ clock' = clock + 1
    /\ UNCHANGED <<site, runsLeft, pc, error, fetches, parsed, response, table,
                   rest, data, current_commodity, df, db, nowDate, nowTime,
                   startClock, dbAtStart, dbBeforeSave>>
    /\ UNCHANGED nonScraperVars

(***************************************************************************)
(* A second scraper run, on the same database, that has extracted its      *)
(* batch wdf and executes save_to_sqlite while the first run executes.     *)
(***************************************************************************)
\* the frame download_b3_futures returns for the records recs, stamped d, t
BatchOf(recs, d, t) ==
    SetColumn(SetColumn(DataFrame(recs), "download_date", d), "download_time", t)

OtherBatches ==
    {BatchOf(<<>>, 0, 0),
     BatchOf(<<RecordOf(Row6(WDO, F25), WDO)>>, 0, 0),
     BatchOf(<<RecordOf(Row6(WDO, F25), WDO), RecordOf(Row6(WDO, G25), WDO)>>, 0, 1)}

\* scraper.py:51-55
OtherDrop ==
    /\ wpc = "drop"
    /\ db' = DropTable(db)
    /\ wpc' = "create"
    /\ UNCHANGED <<site, runsLeft, clock, pc, error, fetches, parsed, response,
                   table, rest, data, current_commodity, df, nowDate, nowTime,
                   startClock, dbAtStart, dbBeforeSave>>
    /\ UNCHANGED <<wdf, decodeVars, chartVars, readerVars>>

\* scraper.py:57, the table's replacement
OtherCreate ==
    /\ wpc = "create"
    /\ db' = CreateTable(db, wdf)
    /\ wpc' = "insert"
    /\ UNCHANGED <<site, runsLeft, clock, pc, error, fetches, parsed, response,
                   table, rest, data, current_commodity, df, nowDate, nowTime,
                   startClock, dbAtStart, dbBeforeSave>>
    /\ UNCHANGED <<wdf, decodeVars, chartVars, readerVars>>

\* scraper.py:57, the rows' insertion
OtherInsert ==
    /\ wpc = "insert"
    /\ IF CanInsert(db, wdf)
       THEN db' = InsertRows(db, wdf) /\ wpc' = "close"
       ELSE wpc' = "failed" /\ UNCHANGED db
    /\ UNCHANGED <<site, runsLeft, clock, pc, error, fetches, parsed, response,
                   table, rest, data, current_commodity, df, nowDate, nowTime,
                   startClock, dbAtStart, dbBeforeSave>>
    /\ UNCHANGED <<wdf, decodeVars, chartVars, readerVars>>

\* scraper.py:59-62
OtherClose ==
    /\ wpc = "close"
    /\ wpc' = "done"
    /\ UNCHANGED <<wdf, scraperVars, decodeVars, chartVars, readerVars>>

\* scraper.py:51-57: a statement of save_to_sqlite raises
OtherFails ==
    /\ wpc \in {"drop", "create", "insert"}
    /\ wpc' = "failed"
    /\ UNCHANGED <<wdf, scraperVars, decodeVars, chartVars, readerVars>>

NoOtherWriter ==
    /\ wpc = "none"
    /\ wdf = NoFrame

(***************************************************************************)
(* parse_contract_month (charting.py).  An optional integer is <<>> for    *)
(* None and <<v>> for the integer v.                                       *)
(***************************************************************************)
NoInt == <<>>
Some(v) == <<v>>

\* charting.py:57-70
month_codes ==
    ("F" :> 1) @@ ("G" :> 2) @@ ("H" :> 3) @@ ("J" :> 4) @@ ("K" :> 5) @@
    ("M" :> 6) @@ ("N" :> 7) @@ ("Q" :> 8) @@ ("U" :> 9) @@ ("V" :> 10) @@
    ("X" :> 11) @@ ("Z" :> 12)

\* month_codes.get(month_code, None)
MonthCodesGet(c) == IF c \in DOMAIN month_codes THEN Some(month_codes[c]) ELSE NoInt

DigitVal ==
    ("0" :> 0) @@ ("1" :> 1) @@ ("2" :> 2) @@ ("3" :> 3) @@ ("4" :> 4) @@
    ("5" :> 5) @@ ("6" :> 6) @@ ("7" :> 7) @@ ("8" :> 8) @@ ("9" :> 9)
Digits == DOMAIN DigitVal

\* int(s): surrounding whitespace and one sign are accepted around the digits
Unsigned(t) == IF t # <<>> /\ Head(t) \in {"+", "-"} THEN Tail(t) ELSE t

IsIntLiteral(s) ==
    LET u == Unsigned(RStrip(LStrip(s)))
    IN  u # <<>> /\ \A i \in 1..Len(u) : u[i] \in Digits

RECURSIVE DigitsValue(_)
DigitsValue(u) ==
    IF u = <<>> THEN 0
    ELSE 10 * DigitsValue(SubSeq(u, 1, Len(u) - 1)) + DigitVal[u[Len(u)]]

IntValue(s) ==
    LET t == RStrip(LStrip(s))
    IN  IF Head(t) = "-" THEN 0 - DigitsValue(Unsigned(t)) ELSE DigitsValue(Unsigned(t))

\* charting.py:80-87
ParseYearRollover(year_code) ==
    IF ~IsIntLiteral(year_code) THEN NoInt
    ELSE IF Len(year_code) = 2
         THEN IF IntValue(year_code) >= 50
              THEN Some(1900 + IntValue(year_code))
              ELSE Some(2000 + IntValue(year_code))
         ELSE Some(IntValue(year_code))
ParseYearAlways2000(year_code) ==
    IF ~IsIntLiteral(year_code) THEN NoInt ELSE Some(2000 + IntValue(year_code))
ParseYear(year_code) ==
    IF ~IsIntLiteral(year_code) THEN NoInt
    ELSE IF Len(year_code) = 2
         THEN Some(2000 + IntValue(year_code))
         ELSE Some(IntValue(year_code))

\* charting.py:56-89
parse_contract_month(c) ==
    IF Len(c) < 2 THEN <<NoInt, NoInt>>
    ELSE <<MonthCodesGet(c[1]), ParseYear(Tail(c))>>

\* the codes a Contract_Month cell may hold
FirstChars == DOMAIN month_codes \cup {"A", "f", "2", " "}
YearChars == Digits \cup {"-", "+", " ", "B"}
Codes(n) ==
    {<<>>} \cup {<<c>> \o r : c \in FirstChars, r \in SeqsUpTo(YearChars, n - 1)}

\* charting.py:92  parse_contract_month is applied to a code
Decode ==
    /\ ~decoded
    /\ decoded' = TRUE
    /\ month' = parse_contract_month(code)[1]
    /\ year' = parse_contract_month(code)[2]
    /\ UNCHANGED <<code, scraperVars, chartVars, writerVars, readerVars>>

NoDecode ==
    /\ code = <<>>
    /\ decoded = FALSE
    /\ month = NoInt
    /\ year = NoInt

(***************************************************************************)
(* The chart scripts github_action_di1_charts.py and super_simple_chart.py *)
(* read all_futures, select the DI1 rows and plot them.                    *)
(***************************************************************************)
NoExit == 0 - 1
ChartScripts == {"github_action", "super_simple"}

\* SQLite's LIKE ignores the case of ASCII letters
Upper(c) ==
    IF c = "d" THEN "D" ELSE IF c = "i" THEN "I" ELSE IF c = "f" THEN "F" ELSE c

\* Commodity LIKE '%DI1%': NULL matches nothing
LikeDI1(t) ==
    /\ t # None
    /\ \E i \in 1..(Len(t) - 2) :
        /\ Upper(t[i]) = "D"
        /\ Upper(t[i + 1]) = "I"
        /\ Upper(t[i + 2]) = "1"

\* the columns the SELECT names
QueryColumns == {"Commodity", "Contract_Month", "Current_Price", "download_date"}

\* pd.read_sql raises DatabaseError: no such table, or no such column
QueryRaises(t) ==
    \/ ~t.exists
    \/ \E c \in QueryColumns : ~HasColumn(t, c)

RowIsDI1(rec) == LikeDI1(rec.Commodity)
\* the rows the SELECT returns
SelectDI1(t) == SelectSeq(t.rows, RowIsDI1)

\* the script's handler of an exception: main() of github_action_di1_charts
\* returns 1 to exit(); super_simple_chart prints ERROR and runs off its end
HandlerExit(s) == IF s = "github_action" THEN 1 ELSE 0

\* df.empty: main() of github_action_di1_charts returns None to exit();
\* super_simple_chart calls exit(1), which except Exception does not catch
EmptyExit(s) == IF s = "github_action" THEN 0 ELSE 1

ChartRaise(stage) ==
    /\ cfailed' = stage
    /\ cpc' = "done"
    /\ exitStatus' = HandlerExit(script)
    /\ UNCHANGED <<script, cdf, success>>

\* python github_action_di1_charts.py, or python super_simple_chart.py
StartChart ==
    /\ cpc \in {"idle", "done"}
    /\ \E s \in ChartScripts : script' = s
    /\ cpc' = "connect"
    /\ cfailed' = "none"
    /\ cdf' = <<>>
    /\ exitStatus' = NoExit
    /\ success' = FALSE
    /\ UNCHANGED nonChartVars

\* github_action_di1_charts.py:31-34, super_simple_chart.py:19
ChartConnect ==
    /\ cpc = "connect"
    /\ cpc' = "query"
    /\ UNCHANGED <<script, cfailed, cdf, exitStatus, success>>
    /\ UNCHANGED nonChartVars

\* sqlite3.connect raises sqlite3.Error
ChartConnectFails ==
    /\ cpc = "connect"
    /\ ChartRaise("connect")
    /\ UNCHANGED nonChartVars

\* github_action_di1_charts.py:54-68 and 223, super_simple_chart.py:34-37
ChartQuery ==
    /\ cpc = "query"
    /\ IF QueryRaises(db)
       THEN ChartRaise("query")
       ELSE /\ cdf' = SelectDI1(db)
            /\ cpc' = "check"
            /\ UNCHANGED <<script, cfailed, exitStatus, success>>
    /\ UNCHANGED nonChartVars

\* github_action_di1_charts.py:225-227, super_simple_chart.py:39-41
ChartCheck ==
    /\ cpc = "check"
    /\ IF cdf = <<>>
       THEN cpc' = "done" /\ exitStatus' = EmptyExit(script)
       ELSE cpc' = "plot" /\ UNCHANGED exitStatus
    /\ UNCHANGED <<script, cfailed, cdf, success>>
    /\ UNCHANGED nonChartVars

\* github_action_di1_charts.py:230-238, super_simple_chart.py:44-79
ChartPlot ==
    /\ cpc = "plot"
    /\ cpc' = "done"
    /\ success' = TRUE
    /\ exitStatus' = 0
    /\ UNCHANGED <<script, cfailed, cdf>>
    /\ UNCHANGED nonChartVars

\* create_charts, or the plotting of super_simple_chart, raises
ChartPlotFails ==
    /\ cpc = "plot"
    /\ ChartRaise("plot")
    /\ UNCHANGED nonChartVars

NoCharts ==
    /\ script = "none"
    /\ cpc = "idle"
    /\ cfailed = "none"
    /\ cdf = <<>>
    /\ exitStatus = NoExit
    /\ success = FALSE

(***************************************************************************)
(* charting.py: main connects to the database, fetch_di1_data reads the    *)
(* DI1 rows and derives the maturity date of each, and main plots them.    *)
(* A date is <<year, month, day>>, and <<>> where pandas has NaT.          *)
(***************************************************************************)
NoDate == <<>>

\* the columns the SELECT of fetch_di1_data names
FetchColumns ==
    {"Commodity", "Contract_Month", "Previous_Price", "Current_Price",
     "Variation", "Settlement_Value", "download_date", "download_time"}

\* pd.read_sql raises DatabaseError: no such table, or no such column
FetchRaises(t) ==
    \/ ~t.exists
    \/ \E c \in FetchColumns : ~HasColumn(t, c)

\* ORDER BY download_date ASC, download_time ASC; rows of one stamp stay in
\* the order of their rowids
StampBefore(a, b) ==
    \/ a.download_date < b.download_date
    \/ a.download_date = b.download_date /\ a.download_time < b.download_time

RECURSIVE InsertByStamp(_, _)
InsertByStamp(rows, r) ==
    IF rows = <<>> THEN <<r>>
    ELSE IF StampBefore(r, Head(rows)) THEN <<r>> \o rows
    ELSE <<Head(rows)>> \o InsertByStamp(Tail(rows), r)

RECURSIVE OrderByStamp(_)
OrderByStamp(rows) ==
    IF rows = <<>> THEN <<>>
    ELSE InsertByStamp(OrderByStamp(SubSeq(rows, 1, Len(rows) - 1)), rows[Len(rows)])

\* day of the month of a maturity date
MaturityDay == 15

\* charting.py:92-98: the date of a row whose month and year are both there
MaturityDate(c) ==
    LET d == parse_contract_month(c)
    IN  IF d[1] # NoInt /\ d[2] # NoInt
        THEN <<d[2][1], d[1][1], MaturityDay>>
        ELSE NoDate

\* datetime.MINYEAR and datetime.MAXYEAR: pd.Timestamp(y, m, 15) raises
\* ValueError for a year outside them
MINYEAR == 1
MAXYEAR == 9999
TimestampMustRaise(y) == y < MINYEAR \/ y > MAXYEAR

\* the first and the last year that lie wholly between pd.Timestamp.min and
\* pd.Timestamp.max: for a year outside them pd.Timestamp raises
\* OutOfBoundsDatetime or not, by the version of pandas
NsMinYear == 1678
NsMaxYear == 2261
TimestampMayRaise(y) == y < NsMinYear \/ y > NsMaxYear

\* an exception ends the process: exit(1) in a handler, or a traceback
MRaise(exc) ==
    /\ mfailed' = exc
    /\ mpc' = "done"
    /\ mexit' = 1
    /\ UNCHANGED <<mdf, mmsg, mplots>>

\* python charting.py
StartAnalyze ==
    /\ mpc \in {"idle", "done"}
    /\ mpc' = "connect"
    /\ mdb' = Absent
    /\ mdf' = <<>>
    /\ mfailed' = "none"
    /\ mexit' = NoExit
    /\ mmsg' = FALSE
    /\ mplots' = FALSE
    /\ UNCHANGED <<scraperVars, decodeVars, chartVars, writerVars, analyzerVars>>

\* charting.py:23-27 and 386
MConnect ==
    /\ mpc = "connect"
    /\ mpc' = "fetch"
    /\ UNCHANGED <<mdb, mdf, mfailed, mexit, mmsg, mplots>>
    /\ UNCHANGED <<scraperVars, decodeVars, chartVars, writerVars, analyzerVars>>

\* charting.py:28-30: sqlite3.connect raises sqlite3.Error
MConnectFails ==
    /\ mpc = "connect"
    /\ MRaise("sqlite3.Error")
    /\ UNCHANGED mdb
    /\ UNCHANGED <<scraperVars, decodeVars, chartVars, writerVars, analyzerVars>>

\* charting.py:32-109 and 390: fetch_di1_data
MFetch ==
    /\ mpc = "fetch"
    /\ mdb' = db
    /\ LET rows == OrderByStamp(SelectDI1(db))
           dates == [i \in 1..Len(rows) |-> MaturityDate(rows[i].Contract_Month)]
           valid == {i \in 1..Len(rows) : dates[i] # NoDate}
       IN  IF FetchRaises(db)
           THEN MRaise("DatabaseError")          \* charting.py:107-109
           ELSE IF rows = <<>>
           THEN MRaise("ValueError")             \* charting.py:92, zip() of nothing
           ELSE \E raises \in BOOLEAN :
               /\ (\E i \in valid : TimestampMustRaise(dates[i][1])) => raises
               /\ raises => \E i \in valid : TimestampMayRaise(dates[i][1])
               /\ IF raises
                  THEN MRaise("ValueError")      \* charting.py:97
                  ELSE IF valid = {}
                  THEN MRaise("TypeError")       \* charting.py:101, no date column
                  ELSE /\ mdf' = [i \in 1..Len(rows) |->
                                     ("maturity_date" :> dates[i]) @@ rows[i]]
                       /\ mpc' = "check"
                       /\ UNCHANGED <<mfailed, mexit, mmsg, mplots>>
    /\ UNCHANGED <<scraperVars, decodeVars, chartVars, writerVars, analyzerVars>>

\* charting.py:393-397
MCheck ==
    /\ mpc = "check"
    /\ IF mdf = <<>>
       THEN mmsg' = TRUE /\ mpc' = "done" /\ mexit' = 0
       ELSE mpc' = "plot" /\ UNCHANGED <<mmsg, mexit>>
    /\ UNCHANGED <<mdb, mdf, mfailed, mplots>>
    /\ UNCHANGED <<scraperVars, decodeVars, chartVars, writerVars, analyzerVars>>

\* charting.py:399-439
MPlot ==
    /\ mpc = "plot"
    /\ mpc' = "done"
    /\ mplots' = TRUE
    /\ mexit' = 0
    /\ UNCHANGED <<mdb, mdf, mfailed, mmsg>>
    /\ UNCHANGED <<scraperVars, decodeVars, chartVars, writerVars, analyzerVars>>

\* charting.py:411-433: a plot function raises, after some plots or none
MPlotFails ==
    /\ mpc = "plot"
    /\ mpc' = "done"
    /\ mfailed' = "plot"
    /\ mexit' = 1
    /\ mplots' \in BOOLEAN
    /\ UNCHANGED <<mdb, mdf, mmsg>>
    /\ UNCHANGED <<scraperVars, decodeVars, chartVars, writerVars, analyzerVars>>

NoAnalyze ==
    /\ mpc = "idle"
    /\ mdb = Absent
    /\ mdf = <<>>
    /\ mfailed = "none"
    /\ mexit = NoExit
    /\ mmsg = FALSE
    /\ mplots = FALSE

\* no FuturesDataAnalyzer is constructed
NoAnalyzer ==
    /\ repo_path = FALSE
    /\ conn = "none"
    /\ fcall = "none"
    /\ fpc = "idle"
    /\ fraised = "none"
    /\ fexecuted = FALSE
    /\ fopened = FALSE
    /\ fcharts = 0
    /\ qdb = Absent
    /\ latest = <<>>

(***************************************************************************)
(* FuturesDataAnalyzer (analysis/futures_data_analyzer.py).  self.conn is  *)
(* "none" for None, "open" for a connection and "closed" for a connection  *)
(* object that has been closed.                                            *)
(***************************************************************************)
\* futures_data_analyzer.py:69-73: self.conn after disconnect_database; a
\* connection object is true, closed or not, and close() of a closed one
\* does nothing
DisconnectNever(c) == c
Disconnect(c) == IF c = "open" THEN "closed" ELSE c

\* the columns the query of get_latest_data names
LatestColumns == {"Commodity", "Contract_Month", "download_date", "download_time"}

\* pd.read_sql_query raises: no such table, or no such column
LatestRaises(t) ==
    \/ ~t.exists
    \/ \E c \in LatestColumns : ~HasColumn(t, c)

\* a = b of SQL: not true when a side is NULL
SqlEq(a, b) == a # None /\ b # None /\ a = b

\* SELECT MAX(download_date) FROM all_futures
MaxDate(rows) == Max({rows[i].download_date : i \in 1..Len(rows)})

\* the rows a2 of the inner SELECT for the row a1
Peers(rows, a1) ==
    {i \in 1..Len(rows) :
        /\ SqlEq(rows[i].Commodity, a1.Commodity)
        /\ SqlEq(rows[i].Contract_Month, a1.Contract_Month)
        /\ rows[i].download_date = MaxDate(rows)}

\* the WHERE of get_latest_data; MAX over no row is NULL
IsLatest(rows, a1) ==
    LET P == Peers(rows, a1)
    IN  /\ P # {}
        /\ a1.download_date = Max({rows[i].download_date : i \in P})
        /\ a1.download_time = Max({rows[i].download_time : i \in P})

\* the characters of the pages, in the order of their codes
CharOrder ==
    <<"\n", " ", "+", "-", "0", "1", "2", "3", "4", "5", "6", "7", "8", "9",
      "A", "B", "D", "F", "G", "H", "I", "J", "K", "L", "M", "N", "O", "Q", "U",
      "V", "W", "X", "Z", "f", "|">>
Rank(c) == CHOOSE i \in 1..Len(CharOrder) : CharOrder[i] = c

\* a < b of two texts (BINARY collation)
RECURSIVE LexBefore(_, _)
LexBefore(a, b) ==
    IF b = <<>> THEN FALSE
    ELSE IF a = <<>> THEN TRUE
    ELSE IF Head(a) = Head(b) THEN LexBefore(Tail(a), Tail(b))
    ELSE Rank(Head(a)) < Rank(Head(b))

\* ORDER BY of a text column: NULL comes first
TextBefore(a, b) == IF a = None THEN b # None ELSE b # None /\ LexBefore(a, b)

\* ORDER BY a1.Commodity, a1.Contract_Month
KeyBefore(a, b) ==
    \/ TextBefore(a.Commodity, b.Commodity)
    \/ a.Commodity = b.Commodity /\ TextBefore(a.Contract_Month, b.Contract_Month)

RECURSIVE InsertByKey(_, _)
InsertByKey(rows, r) ==
    IF rows = <<>> THEN <<r>>
    ELSE IF KeyBefore(r, Head(rows)) THEN <<r>> \o rows
    ELSE <<Head(rows)>> \o InsertByKey(Tail(rows), r)

RECURSIVE OrderByKey(_)
OrderByKey(rows) ==
    IF rows = <<>> THEN <<>>
    ELSE InsertByKey(OrderByKey(SubSeq(rows, 1, Len(rows) - 1)), rows[Len(rows)])

\* futures_data_analyzer.py:98-109: the rows the query of get_latest_data gives
get_latest_data(t) ==
    LET keep(r) == IsLatest(t.rows, r)
    IN  OrderByKey(SelectSeq(t.rows, keep))

\* the charts dict of run_analysis has four entries
NumCharts == 4

\* the analyzer works on the database file that the scraper runs have left
\* (the file it pulls from the repository): no run is writing it
Quiet ==
    /\ pc \in {"done", "failed"}
    /\ wpc \in {"done", "failed"}

\* a method of the analyzer is called
Call(name) ==
    /\ Quiet
    /\ fpc = "idle"
    /\ fcall' = name
    /\ UNCHANGED <<repo_path, scraperVars, decodeVars, chartVars, writerVars, analyzeVars>>

\* futures_data_analyzer.py:60-67
ConnectDatabase ==
    /\ Call("connect_database")
    /\ \E ok \in BOOLEAN :
        IF ok
        THEN conn' = "open" /\ fraised' = "none"
        ELSE fraised' = "sqlite3.Error" /\ UNCHANGED conn
    /\ UNCHANGED <<fpc, fexecuted, fopened, fcharts, qdb, latest>>

\* futures_data_analyzer.py:69-73
DisconnectDatabase ==
    /\ Call("disconnect_database")
    /\ conn' = Disconnect(conn)
    /\ fraised' = "none"
    /\ UNCHANGED <<fpc, fexecuted, fopened, fcharts, qdb, latest>>

\* futures_data_analyzer.py:75-86 and 96-110: get_latest_data, through query_data
GetLatestData ==
    /\ Call("get_latest_data")
    /\ IF conn = "none"
       THEN /\ fraised' = "Database not connected"     \* line 78
            /\ fexecuted' = FALSE
            /\ qdb' = Absent
            /\ latest' = <<>>
       ELSE IF conn = "closed"
       THEN /\ fraised' = "closed database"            \* line 81 raises, 84-86
            /\ fexecuted' = FALSE
            /\ qdb' = Absent
            /\ latest' = <<>>
       ELSE /\ fexecuted' = TRUE
            /\ qdb' = db
            /\ IF LatestRaises(db)
               THEN fraised' = "DatabaseError" /\ latest' = <<>>
               ELSE fraised' = "none" /\ latest' = get_latest_data(db)
    /\ UNCHANGED <<conn, fpc, fopened, fcharts>>

\* a statement of the try block of run_analysis raises: lines 351-353, then
\* the finally clause
RunRaise(exc) ==
    /\ fraised' = exc
    /\ fpc' = "finally"

\* futures_data_analyzer.py:317-321: run_analysis is entered
RunAnalysis ==
    /\ Call("run_analysis")
    /\ fpc' = IF repo_path THEN "pull" ELSE "connect"
    /\ fraised' = "none"
    /\ fexecuted' = FALSE
    /\ fopened' = FALSE
    /\ fcharts' = 0
    /\ UNCHANGED <<conn, qdb, latest>>

\* futures_data_analyzer.py:37-58 and 322: git pull succeeds or raises
GitPull ==
    /\ fpc = "pull"
    /\ \E ok \in BOOLEAN :
        IF ok THEN fpc' = "connect" /\ UNCHANGED fraised ELSE RunRaise("git")
    /\ UNCHANGED <<repo_path, conn, fcall, fexecuted, fopened, fcharts, qdb, latest>>
    /\ UNCHANGED <<scraperVars, decodeVars, chartVars, writerVars, analyzeVars>>

\* futures_data_analyzer.py:60-67 and 325
RunConnect ==
    /\ fpc = "connect"
    /\ \E ok \in BOOLEAN :
        IF ok
        THEN conn' = "open" /\ fopened' = TRUE /\ fpc' = "charts" /\ UNCHANGED fraised
        ELSE RunRaise("sqlite3.Error") /\ UNCHANGED <<conn, fopened>>
    /\ UNCHANGED <<repo_path, fcall, fexecuted, fcharts, qdb, latest>>
    /\ UNCHANGED <<scraperVars, decodeVars, chartVars, writerVars, analyzeVars>>

\* futures_data_analyzer.py:328-341: the queries and the four charts
RunCharts ==
    /\ fpc = "charts"
    /\ fexecuted' = TRUE
    /\ qdb' = db
    /\ IF LatestRaises(db)
       THEN RunRaise("DatabaseError") /\ UNCHANGED fcharts
       ELSE \E ok \in BOOLEAN :
           IF ok
           THEN fcharts' = NumCharts /\ fpc' = "save" /\ UNCHANGED fraised
           ELSE RunRaise("chart") /\ fcharts' \in 0..(NumCharts - 1)
    /\ UNCHANGED <<repo_path, conn, fcall, fopened, latest>>
    /\ UNCHANGED <<scraperVars, decodeVars, chartVars, writerVars, analyzeVars>>

\* futures_data_analyzer.py:344-349: the charts are saved when save_charts is
\* set, and writing a file may raise
RunSave ==
    /\ fpc = "save"
    /\ \E save_charts \in BOOLEAN, ok \in BOOLEAN :
        IF save_charts /\ ~ok
        THEN RunRaise("save")
        ELSE fpc' = "finally" /\ UNCHANGED fraised
    /\ UNCHANGED <<repo_path, conn, fcall, fexecuted, fopened, fcharts, qdb, latest>>
    /\ UNCHANGED <<scraperVars, decodeVars, chartVars, writerVars, analyzeVars>>

\* futures_data_analyzer.py:354-355: finally, and run_analysis ends
RunFinally ==
    /\ fpc = "finally"
    /\ conn' = Disconnect(conn)
    /\ fpc' = "idle"
    /\ UNCHANGED <<repo_path, fcall, fraised, fexecuted, fopened, fcharts, qdb, latest>>
    /\ UNCHANGED <<scraperVars, decodeVars, chartVars, writerVars, analyzeVars>>

\* python scraper.py ends: an uncaught exception gives exit status 1
ScraperExitStatus ==
    IF pc = "failed" THEN 1 ELSE IF pc = "done" THEN 0 ELSE NoExit

(***************************************************************************)
(* Specifications                                                          *)
(***************************************************************************)
InitLocals ==
    /\ pc = "idle"
    /\ error = "none"
    /\ fetches = 0
    /\ parsed = FALSE
    /\ response = NetworkError
    /\ table = None
    /\ rest = <<>>
    /\ data = <<>>
    /\ current_commodity = None
    /\ df = NoFrame
    /\ db = Absent
    /\ nowDate = NoClock
    /\ nowTime = NoClock
    /\ startClock = NoClock
    /\ dbAtStart = Absent
    /\ dbBeforeSave = Absent

\* no scraper run is started
NoScraper ==
    /\ site = "store"
    /\ runsLeft = 0
    /\ clock = 0
    /\ InitLocals

\* MaxRuns runs, one after the other, on a database that starts without the table
Init ==
    /\ site = "store"
    /\ runsLeft = MaxRuns
    /\ clock = 0
    /\ InitLocals
    /\ NoDecode
    /\ NoCharts
    /\ NoOtherWriter
    /\ NoAnalyze
    /\ NoAnalyzer

\* one run, over every small table
InitExtract ==
    /\ site = "extract"
    /\ runsLeft = 1
    /\ clock = MaxClock - 1
    /\ InitLocals
    /\ NoDecode
    /\ NoCharts
    /\ NoOtherWriter
    /\ NoAnalyze
    /\ NoAnalyzer

Next ==
    \/ StartRun
    \/ Get
    \/ Parse
    \/ ForRows
    \/ RowStep
    \/ Frame
    \/ StampDate
    \/ StampTime
    \/ SaveDrop
    \/ SaveCreate
    \/ SaveInsert
    \/ SaveClose
    \/ StoreFails
    \/ Report
    \/ Tick

Spec == Init /\ [][Next]_vars

SpecExtract == InitExtract /\ [][Next]_vars

\* parse_contract_month applied to every short code
InitDecode ==
    /\ NoScraper
    /\ code \in Codes(MaxCodeLen)
    /\ decoded = FALSE
    /\ month = NoInt
    /\ year = NoInt
    /\ NoCharts
    /\ NoOtherWriter
    /\ NoAnalyze
    /\ NoAnalyzer

NextDecode == Decode

SpecDecode == InitDecode /\ [][NextDecode]_vars

\* one scraper run and any number of runs of the chart scripts
InitCharts ==
    /\ site = "store"
    /\ runsLeft = 1
    /\ clock = MaxClock - 1
    /\ InitLocals
    /\ NoDecode
    /\ NoCharts
    /\ NoOtherWriter
    /\ NoAnalyze
    /\ NoAnalyzer

NextCharts ==
    \/ Next
    \/ StartChart
    \/ ChartConnect
    \/ ChartConnectFails
    \/ ChartQuery
    \/ ChartCheck
    \/ ChartPlot
    \/ ChartPlotFails

SpecCharts == InitCharts /\ [][NextCharts]_vars

\* one scraper run and any number of runs of charting.py
InitAnalyze ==
    /\ site = "codes"
    /\ runsLeft = 1
    /\ clock = MaxClock - 1
    /\ InitLocals
    /\ NoDecode
    /\ NoCharts
    /\ NoOtherWriter
    /\ NoAnalyze
    /\ NoAnalyzer

NextAnalyze ==
    \/ Next
    \/ StartAnalyze
    \/ MConnect
    \/ MConnectFails
    \/ MFetch
    \/ MCheck
    \/ MPlot
    \/ MPlotFails

SpecAnalyze == InitAnalyze /\ [][NextAnalyze]_vars

\* one scraper run, and a second run that saves its batch at the same time
InitConcurrent ==
    /\ site = "store"
    /\ runsLeft = 1
    /\ clock = MaxClock - 1
    /\ InitLocals
    /\ NoDecode
    /\ NoCharts
    /\ wpc = "drop"
    /\ wdf \in OtherBatches
    /\ NoAnalyze
    /\ NoAnalyzer

NextConcurrent ==
    \/ Next
    \/ OtherDrop
    \/ OtherCreate
    \/ OtherInsert
    \/ OtherClose
    \/ OtherFails

SpecConcurrent == InitConcurrent /\ [][NextConcurrent]_vars

\* two scraper runs that save at the same time, and an analyzer on their database
InitAnalyzer ==
    /\ site = "store"
    /\ runsLeft = 1
    /\ clock = MaxClock - 1
    /\ InitLocals
    /\ NoDecode
    /\ NoCharts
    /\ wpc = "drop"
    /\ wdf \in OtherBatches
    /\ NoAnalyze
    /\ repo_path \in BOOLEAN
    /\ conn = "none"
    /\ fcall = "none"
    /\ fpc = "idle"
    /\ fraised = "none"
    /\ fexecuted = FALSE
    /\ fopened = FALSE
    /\ fcharts = 0
    /\ qdb = Absent
    /\ latest = <<>>

NextAnalyzer ==
    \/ NextConcurrent
    \/ ConnectDatabase
    \/ DisconnectDatabase
    \/ GetLatestData
    \/ RunAnalysis
    \/ GitPull
    \/ RunConnect
    \/ RunCharts
    \/ RunSave
    \/ RunFinally

SpecAnalyzer == InitAnalyzer /\ [][NextAnalyzer]_vars

(***************************************************************************)
(* Vocabulary of the properties                                            *)
(***************************************************************************)
\* the for loop has been entered in the current run
InLoop == pc = "row"
\* download_b3_futures has returned df in the current run
Returned ==
    \/ pc \in {"drop", "create", "insert", "close", "report", "done"}
    \/ pc = "failed" /\ error \in {"store", "report"}
\* save_to_sqlite has returned in the current run
Saved ==
    \/ pc \in {"report", "done"}
    \/ pc = "failed" /\ error = "report"

HasSixCells(r) == Len(r) = 6
AfterHeader(t) == SubSeq(t, 2, Len(t))
\* the rows the loop has visited so far
Visited == SubSeq(AfterHeader(table), 1, Len(AfterHeader(table)) - Len(rest))
VisitedSixCellRows == SelectSeq(Visited, HasSixCells)

\* record rec was made from the cells 1..5 of row r
MadeFrom(rec, r) ==
    /\ rec.Contract_Month = GetText(r[2])
    /\ rec.Previous_Price = GetText(r[3])
    /\ rec.Current_Price = GetText(r[4])
    /\ rec.Variation = GetText(r[5])
    /\ rec.Settlement_Value = GetText(r[6])

\* the text of a cell: its strings, joined as they stand
RECURSIVE TextOf(_)
TextOf(t) ==
    IF t = <<>> THEN <<>>
    ELSE IF Head(t) = TagEdge THEN TextOf(Tail(t))
    ELSE <<Head(t)>> \o TextOf(Tail(t))

\* the records that leave the extraction: data while the loop runs, the rows
\* of df once it is built
Emitted == IF pc = "row" THEN data ELSE df.rows

(***************************************************************************)
(* C1: download_b3_futures emits exactly one record for each row after the *)
(* first that has exactly 6 td cells, in document order, and nothing for a *)
(* row with fewer or more cells: at every point of the loop, and in the    *)
(* frame returned, the k-th record is made from the k-th 6-cell row        *)
(* visited, and there are as many records as such rows.                    *)
(***************************************************************************)
C1_OneRecordPerSixCellRow ==
    (InLoop \/ Returned) =>
        /\ Len(data) = Len(VisitedSixCellRows)
        /\ \A k \in 1..Len(data) : MadeFrom(data[k], VisitedSixCellRows[k])
        /\ Returned =>
            /\ Len(df.rows) = Len(data)
            /\ \A k \in 1..Len(data) : MadeFrom(df.rows[k], VisitedSixCellRows[k])

C1_Witness ==
    /\ pc = "drop"
    /\ table = <<INDRow, ShortRow, DI1Row, LongRow>>
    /\ Len(df.rows) = 1
    /\ df.rows[1].Contract_Month = F25

(***************************************************************************)
(* C2: the Commodity of every emitted record is the trimmed cell-0 text of *)
(* the latest 6-cell row after the header, at or before the record's own   *)
(* row, whose trimmed cell 0 is not empty (None when there is no such      *)
(* row); the rows (DI1,F25), ("",G25), ("",H25) give three DI1 records.    *)
(***************************************************************************)
C2_CommodityIsLatestNonEmpty ==
    (InLoop \/ Returned) =>
        /\ Len(Emitted) = Len(VisitedSixCellRows)
        /\ \A k \in 1..Len(Emitted) :
            LET named == {j \in 1..k : GetText(VisitedSixCellRows[j][1]) # <<>>}
            IN  Emitted[k].Commodity =
                    IF named = {} THEN None
                    ELSE GetText(VisitedSixCellRows[Max(named)][1])
        /\ (Returned /\ table = ExampleTable) =>
            /\ Len(df.rows) = 3
            /\ \A k \in 1..3 : df.rows[k].Commodity = DI1

C2_Witness ==
    /\ pc = "drop"
    /\ table = ExampleTable
    /\ Len(df.rows) = 3
    /\ df.rows[3].Commodity = DI1
    /\ df.rows[3].Contract_Month = H25

(***************************************************************************)
(* C3: every record of the frame one call returns carries the same         *)
(* (download_date, download_time) pair.                                    *)
(***************************************************************************)
C3_BatchTimestampUniform ==
    Returned =>
        \A i, j \in 1..Len(df.rows) :
            /\ df.rows[i].download_date = df.rows[j].download_date
            /\ df.rows[i].download_time = df.rows[j].download_time

C3_Witness ==
    /\ pc = "drop"
    /\ Len(df.rows) = 3
    /\ nowDate # nowTime
    /\ df.rows[1].download_date = df.rows[3].download_date
    /\ df.rows[1].download_time = df.rows[3].download_time

(***************************************************************************)
(* C4: after a successful save_to_sqlite(df) the all_futures table holds   *)
(* exactly the records of df, as many and in the same order, duplicates    *)
(* included, and so no record of an earlier batch.                         *)
(***************************************************************************)
C4_TableIsTheBatch ==
    Saved =>
        /\ db.exists
        /\ db.rows = df.rows

C4_Witness ==
    /\ pc = "report"
    /\ dbBeforeSave.exists
    /\ Len(dbBeforeSave.rows) = 3
    /\ Len(df.rows) = 2
    /\ df.rows[1] = df.rows[2]
    /\ db.rows = df.rows

(***************************************************************************)
(* C5: every record an earlier run wrote to all_futures is still present   *)
(* after a later run has saved its batch (each run is a pure append).      *)
(***************************************************************************)
C5_EarlierRecordsKept ==
    Saved =>
        \A i \in 1..Len(dbAtStart.rows) :
            \E j \in 1..Len(db.rows) : db.rows[j] = dbAtStart.rows[i]

(***************************************************************************)
(* C6: when save_to_sqlite fails after it has started, the all_futures     *)
(* table is exactly as it was before the call (same rows, or absent).      *)
(***************************************************************************)
C6_FailedSaveChangesNothing ==
    (pc = "failed" /\ error = "store") => db = dbBeforeSave

(***************************************************************************)
(* C7: the download_date and download_time of a batch are the date and the *)
(* time of one instant, a reading of the clock taken during the call.      *)
(***************************************************************************)
C7_StampIsOneInstant ==
    Returned =>
        \E t \in startClock..clock :
            \A i \in 1..Len(df.rows) :
                /\ df.rows[i].download_date = StrfDate(t)
                /\ df.rows[i].download_time = StrfTime(t)

(***************************************************************************)
(* C8: when the table has no 6-cell row after its first row,               *)
(* download_b3_futures raises nothing and the frame it returns has no      *)
(* record.                                                                 *)
(***************************************************************************)
NoQualifyingRow == SelectSeq(AfterHeader(table), HasSixCells) = <<>>

C8_EmptyTableEmptyBatch ==
    (table # None /\ NoQualifyingRow) =>
        /\ error \notin {"fetch", "parse"}
        /\ data = <<>>
        /\ df.rows = <<>>

C8_Witness ==
    /\ pc = "drop"
    /\ table = <<INDRow, ShortRow, LongRow>>
    /\ df.rows = <<>>
    /\ error = "none"

(***************************************************************************)
(* C9: when the fetched document has no table element, the extraction      *)
(* fails with an error at the row loop, no record and no frame is          *)
(* produced, and all_futures stays as it was when the run began.           *)
(***************************************************************************)
C9_NoTableFailsRun ==
    (parsed /\ response.doc = <<>>) =>
        /\ pc = "for" \/ (pc = "failed" /\ error = "parse")
        /\ data = <<>>
        /\ df = NoFrame
        /\ db = dbAtStart

C9_Witness ==
    /\ pc = "failed"
    /\ error = "parse"
    /\ response.status = 200
    /\ response.doc = <<>>
    /\ Len(db.rows) = 3

(***************************************************************************)
(* C10: when the fetch fails, by a network error or by an HTTP error       *)
(* status, the run is aborted at the fetch: nothing is parsed, one fetch   *)
(* was made, no record exists and all_futures is as it was.                *)
(***************************************************************************)
FetchFailed ==
    \/ pc = "failed" /\ error = "fetch"
    \/ pc \notin {"idle", "get"} /\ error # "fetch" /\ response.status >= 400

C10_FetchFailureAborts ==
    FetchFailed =>
        /\ pc = "failed"
        /\ error = "fetch"
        /\ ~parsed
        /\ fetches = 1
        /\ data = <<>>
        /\ df = NoFrame
        /\ db = dbAtStart

(***************************************************************************)
(* Vocabulary of the decoder's properties                                  *)
(***************************************************************************)
MonthLetters == <<"F", "G", "H", "J", "K", "M", "N", "Q", "U", "V", "X", "Z">>
IsMonthLetter(c) == \E i \in 1..12 : MonthLetters[i] = c
MonthNumber(c) == CHOOSE i \in 1..12 : MonthLetters[i] = c
IsDigit(c) == c \in {"0", "1", "2", "3", "4", "5", "6", "7", "8", "9"}

\* code is <MonthLetter><2-digit-year>
WellFormed(c) ==
    /\ Len(c) = 3
    /\ IsMonthLetter(c[1])
    /\ IsDigit(c[2])
    /\ IsDigit(c[3])

\* the integer the year part of the code denotes: its digits, read in base
\* ten, negated when the part has a minus sign
YearPart(c) == SubSeq(c, 2, Len(c))
YearPartValue(c) ==
    LET ds == SelectSeq(YearPart(c), IsDigit)
        pow[k \in 0..Len(ds)] == IF k = 0 THEN 1 ELSE 10 * pow[k - 1]
        sum[k \in 0..Len(ds)] ==
            IF k = 0 THEN 0 ELSE sum[k - 1] + DigitVal[ds[k]] * pow[Len(ds) - k]
    IN  IF \E i \in 1..Len(YearPart(c)) : YearPart(c)[i] = "-"
        THEN 0 - sum[Len(ds)]
        ELSE sum[Len(ds)]

C12_PairOrNothing ==
    decoded =>
        IF WellFormed(code)
        THEN /\ month # NoInt /\ month[1] \in 1..12
             /\ year # NoInt /\ year[1] \in 1000..9999
        ELSE month = NoInt /\ year = NoInt

C14_CommodityNonEmpty ==
    (InLoop \/ Returned) =>
        \A k \in 1..Len(Emitted) :
            /\ Emitted[k].Commodity # None
            /\ Emitted[k].Commodity # <<>>

(***************************************************************************)
(* C15: after every successful save_to_sqlite, whatever the size of the    *)
(* batch, all_futures has exactly the eight columns of a settlement        *)
(* record.                                                                 *)
(***************************************************************************)
AllFuturesColumns ==
    <<"Commodity", "Contract_Month", "Previous_Price", "Current_Price",
      "Variation", "Settlement_Value", "download_date", "download_time">>

C15_StableColumns ==
    Saved => (db.exists /\ db.cols = AllFuturesColumns)

(***************************************************************************)
(* C16: no two rows of all_futures share the same (Commodity,              *)
(* Contract_Month, download_date, download_time).                          *)
(***************************************************************************)
KeyOf(rec) ==
    <<rec.Commodity, rec.Contract_Month, rec.download_date, rec.download_time>>

C16_KeyUnique ==
    \A i, j \in 1..Len(db.rows) : i # j => KeyOf(db.rows[i]) # KeyOf(db.rows[j])

(***************************************************************************)
(* C17: a run whose page yields zero records and whose save has succeeded  *)
(* does not end with an exception.                                         *)
(***************************************************************************)
C17_EmptyRunFinishes ==
    (Saved /\ df.rows = <<>>) => pc # "failed"

(***************************************************************************)
(* C20: while the rows are visited, current_commodity changes only at a    *)
(* 6-cell row whose trimmed cell 0 is not empty, and then becomes that     *)
(* text: a row of another cell count, and a 6-cell row whose cell 0 is     *)
(* empty or whitespace, leave it as it is.                                 *)
(***************************************************************************)
C20_CarryForwardFrame ==
    [][/\ (pc = "row" /\ current_commodity' # current_commodity) =>
            /\ rest # <<>>
            /\ rest' = Tail(rest)
            /\ Len(Head(rest)) = 6
            /\ GetText(Head(rest)[1]) # <<>>
            /\ current_commodity' = GetText(Head(rest)[1])
       /\ (pc = "row" /\ rest # <<>> /\ rest' = Tail(rest)
              /\ Len(Head(rest)) = 6 /\ GetText(Head(rest)[1]) # <<>>) =>
            current_commodity' = GetText(Head(rest)[1])
      ]_vars

C20_Witness ==
    /\ pc = "row"
    /\ rest = <<>>
    /\ AfterHeader(table) = <<DI1Row, ShortRow, BlankRow>>
    /\ current_commodity = DI1
    /\ Len(data) = 2

(***************************************************************************)
(* C19: whenever a stage of a run fails (fetch, parse or store in the      *)
(* scraper; connection, query or plotting in a chart script), the process  *)
(* ends with a non-zero exit status and does not report success.           *)
(***************************************************************************)
C19_FailureExitsNonZero ==
    /\ pc = "failed" => ScraperExitStatus # 0
    /\ (cpc = "done" /\ cfailed # "none") => (exitStatus # 0 /\ ~success)

(***************************************************************************)
(* C18: when two scraper runs execute save_to_sqlite on the same database  *)
(* with their steps interleaved, every committed state of all_futures      *)
(* holds no row (the table is absent or just created) or exactly the rows  *)
(* of one of the two batches: never rows of both, never part of a batch.   *)
(***************************************************************************)
C18_OneWholeBatch ==
    \/ db.rows = <<>>
    \/ db.rows = wdf.rows
    \/ Returned /\ db.rows = df.rows

(***************************************************************************)
(* C21: the Contract_Month, Previous_Price, Current_Price, Variation and   *)
(* Settlement_Value of the k-th emitted record are the texts of cells 1 to *)
(* 5 of the k-th 6-cell row visited, with leading and trailing whitespace  *)
(* removed and otherwise unchanged.                                        *)
(***************************************************************************)
C21_CellsTrimmedOnly ==
    (InLoop \/ Returned) =>
        /\ Len(Emitted) = Len(VisitedSixCellRows)
        /\ \A k \in 1..Len(Emitted) :
            LET r == VisitedSixCellRows[k]
            IN  /\ Emitted[k].Contract_Month = Strip(TextOf(r[2]))
                /\ Emitted[k].Previous_Price = Strip(TextOf(r[3]))
                /\ Emitted[k].Current_Price = Strip(TextOf(r[4]))
                /\ Emitted[k].Variation = Strip(TextOf(r[5]))
                /\ Emitted[k].Settlement_Value = Strip(TextOf(r[6]))

\* fetch_di1_data of the current run of charting.py has read table mdb
Fetched == mpc \in {"check", "plot", "done"} /\ ~FetchRaises(mdb)

(***************************************************************************)
(* C22: fetch_di1_data keeps every DI1 row it has queried, whatever its     *)
(* Contract_Month: it does not fail, it returns as many rows as the query  *)
(* gave, in their order, and the maturity date of a row is year-month-15   *)
(* when its code decodes to (month, year) and is missing when it does not. *)
(***************************************************************************)
C22_EveryDI1RowKept ==
    (Fetched /\ SelectDI1(mdb) # <<>>) =>
        LET rows == OrderByStamp(SelectDI1(mdb))
        IN  /\ mfailed \in {"none", "plot"}
            /\ Len(mdf) = Len(rows)
            /\ \A k \in 1..Len(mdf) :
                LET d == parse_contract_month(rows[k].Contract_Month)
                IN  /\ \A c \in FetchColumns : mdf[k][c] = rows[k][c]
                    /\ mdf[k].maturity_date =
                           IF d[1] # NoInt /\ d[2] # NoInt
                           THEN <<d[2][1], d[1][1], 15>>
                           ELSE NoDate

(***************************************************************************)
(* C26: when all_futures holds no row whose Commodity contains 'DI1',      *)
(* fetch_di1_data of charting.py returns an empty data set and raises      *)
(* nothing, and main prints 'No DI1 futures data found' and returns        *)
(* without a plot.                                                         *)
(***************************************************************************)
C26_NoDI1NoCrash ==
    (Fetched /\ SelectDI1(mdb) = <<>>) =>
        /\ mfailed = "none"
        /\ mdf = <<>>
        /\ mpc = "done" => (mmsg /\ ~mplots /\ mexit = 0)

(***************************************************************************)
(* C23: get_latest_data returns the most recent data of each commodity:    *)
(* every commodity that has a row in the table it read has a row in the    *)
(* result, and every row of the result is a row of the table that carries  *)
(* the greatest (download_date, download_time) of its (Commodity,          *)
(* Contract_Month).                                                        *)
(***************************************************************************)
C23_LatestOfEachCommodity ==
    (fcall = "get_latest_data" /\ fraised = "none") =>
        /\ \A i \in 1..Len(qdb.rows) :
            qdb.rows[i].Commodity # None =>
                \E k \in 1..Len(latest) : latest[k].Commodity = qdb.rows[i].Commodity
        /\ \A k \in 1..Len(latest) :
            /\ \E i \in 1..Len(qdb.rows) : qdb.rows[i] = latest[k]
            /\ \A i \in 1..Len(qdb.rows) :
                (/\ qdb.rows[i].Commodity = latest[k].Commodity
                 /\ qdb.rows[i].Contract_Month = latest[k].Contract_Month)
                    => ~StampBefore(latest[k], qdb.rows[i])

(***************************************************************************)
(* C24: query_data, called while the analyzer has no open connection       *)
(* (before connect_database, or after disconnect_database), raises the     *)
(* 'Database not connected' ValueError and runs no query.                  *)
(***************************************************************************)
C24_QueryNeedsConnection ==
    (fcall = "get_latest_data" /\ conn # "open") =>
        /\ fraised = "Database not connected"
        /\ ~fexecuted

\* the last call was run_analysis, and it has ended
RunEnded == fcall = "run_analysis" /\ fpc = "idle"

(***************************************************************************)
(* C25: a run_analysis call that has opened the database connection has    *)
(* closed it when the call ends, whether it returns the charts or a step   *)
(* (query, chart creation, chart saving) has raised; and when the git pull *)
(* fails, the call connects to no database and creates no chart.           *)
(***************************************************************************)
C25_RunAnalysisClosesConnection ==
    /\ (RunEnded /\ fopened) => conn = "closed"
    /\ (fcall = "run_analysis" /\ fraised = "git") =>
        /\ ~fopened
        /\ fcharts = 0
        /\ ~fexecuted

C25_Witness ==
    /\ RunEnded
    /\ fopened
    /\ fraised = "chart"
    /\ fexecuted
    /\ conn = "closed"

====
